---------------------------- MODULE Spec2Model ----------------------------
(***************************************************************************)
(* A model of wikidict's dump parser (src/wikidict/parse.py) and of the    *)
(* German locale's template dispatch (src/wikidict/lang/de/__init__.py).   *)
(*                                                                         *)
(* A Python str is modelled as a finite sequence of one-character strings, *)
(* "" being << >>.  A value that may be None (Element.text) is a set of at *)
(* most one str, None being {}.                                            *)
(***************************************************************************)
EXTENDS Integers, Sequences, FiniteSets, TLC

VARIABLES
    \* ---- main() / process() / save() : parse.py
    dump,        \* the pages of the latest pages-*.xml file, in document order
    hasDump,     \* whether get_latest_xml_file() finds a dump
    pc,          \* position of main(): "main", "process", "save", "dump", "done", "raised"
    pos,         \* process(): index in dump of the next element xml_iter_parse yields
    words,       \* process(): the words dict
    error,       \* the exception that left main(), "none" when there is none
    rc,          \* main()'s return value, -1 while it runs or when it raised
    file,        \* the output file data_wikicode-<date>.json
    runs,        \* number of times main() was started
    \* ---- xml_parse_element() on one element
    element,     \* the argument
    parsed,      \* the outcome, Pending before the call
    \* ---- xml_iter_parse()
    ipc,         \* "first" (before next(doc)), "loop", "done"
    stack,       \* the elements iterparse has started and not yet ended
    nElems,      \* number of elements started so far; an element's id is its rank
    tagOf,       \* sequence: tag of element id
    start_tag,   \* the generator's local start_tag, {} for None
    yielded,     \* ids of the elements yielded so far, in order
    closedPages, \* ids of the page elements whose end event was delivered, in order
    flat,        \* history: no page element was the root or inside another page
    \* ---- last_template_handler()
    lang_adjs,   \* lang_adjs.lang_adjs
    langs,       \* langs.langs
    registry,    \* the names lookup_template() recognises
    registry_out,\* what render_template() returns for the template
    template,    \* the argument
    rendered     \* the outcome, Pending before the call

mainVars   == <<dump, hasDump, pc, pos, words, error, rc, file, runs>>
parseVars  == <<element, parsed>>
iterVars   == <<ipc, stack, nElems, tagOf, start_tag, yielded, closedPages, flat>>
renderVars == <<lang_adjs, langs, registry, registry_out, template, rendered>>
vars       == <<mainVars, parseVars, iterVars, renderVars>>

\* ------------------------------------------------------------------ bounds
MaxPages   == 3   \* pages in a dump
MaxRuns    == 2   \* starts of main()
MaxRevKids == 7   \* children of a revision element
MaxElems   == 5   \* elements in a document given to xml_iter_parse
MaxParams  == 2   \* parameters of a template invocation

\* ----------------------------------------------------------------- strings
Empty == << >>
None  == {}
Some(s) == {s}

\* `x or ""` for x a str or None
OrEmpty(t) == IF t = None THEN Empty ELSE CHOOSE s \in t : TRUE

\* `c in s` for a one-character c
Contains(s, c) == \E i \in 1..Len(s) : s[i] = c

\* ord() of the characters the model's strings are written with
Ord(c) ==
    CASE c = ":" -> 58 [] c = "C" -> 67 [] c = "H" -> 72
      [] c = "a" -> 97 [] c = "b" -> 98 [] c = "x" -> 120 [] c = "y" -> 121
      [] OTHER -> 0

\* str.__lt__ : lexicographic by code point, a proper prefix first
RECURSIVE StrLess(_, _)
StrLess(s, t) ==
    IF t = Empty THEN FALSE
    ELSE IF s = Empty THEN TRUE
    ELSE IF Ord(Head(s)) # Ord(Head(t)) THEN Ord(Head(s)) < Ord(Head(t))
    ELSE StrLess(Tail(s), Tail(t))

\* sorted(keys)
RECURSIVE Sorted(_)
Sorted(S) ==
    IF S = {} THEN << >>
    ELSE LET m == CHOOSE k \in S : \A o \in S \ {k} : StrLess(k, o)
         IN  <<m>> \o Sorted(S \ {m})

\* before xml_parse_element / last_template_handler has been called
Pending == [raised |-> FALSE, done |-> FALSE, word |-> Empty, code |-> Empty]
NotRendered == [raised |-> FALSE, done |-> FALSE, step |-> 0, value |-> Empty]

\* ---------------------------------------------------------------- elements
\* Element tags.  Every tag of the export is "{http://www.mediawiki.org/xml/
\* export-0.10/}" followed by a local name; the model writes the local name.
PAGE         == "page"
RESTRICTIONS == "restrictions"
TEXT         == "text"
TITLE        == "title"
REVISION     == "revision"
REDIRECT     == "redirect"
MEDIAWIKI    == "mediawiki"
OTHER_TAG    == "id"

\* An xml.etree Element: its tag, its text and its children (len(e), e[i]).
Elem(tag, text, kids) == [tag |-> tag, text |-> text, kids |-> kids]
Leaf(tag, text) == Elem(tag, text, << >>)

\* e[i] with Python's 0-based index; the caller checks i < len(e)
Child(e, i) == e.kids[i + 1]

\* ------------------------------------------------------- xml_parse_element
RevisionIndex == 3   \* element[3]
TextOffset    == 5   \* revision[5:]

IndexError   == [raised |-> TRUE,  done |-> TRUE, word |-> Empty, code |-> Empty]
Return(w, c) == [raised |-> FALSE, done |-> TRUE, word |-> w, code |-> c]

\* The for/else over revision[5:], then the title.
ScanRevision(elem, revision) ==
    LET found == {i \in TextOffset..(Len(revision.kids) - 1) : Child(revision, i).tag = TEXT}
    IN  IF found = {}
        THEN Return(Empty, Empty)
        ELSE LET i    == CHOOSE i \in found : \A j \in found : i <= j
                 code == OrEmpty(Child(revision, i).text)
                 word == OrEmpty(Child(elem, 0).text)
             IN  Return(word, code)

\* A plausible slip: the restriction marker is recognised but the revision is
\* still read at index 3.
xml_parse_element_noshift(elem) ==
    IF Len(elem.kids) <= RevisionIndex
    THEN IndexError
    ELSE LET revision == Child(elem, RevisionIndex)
         IN  IF revision.tag # RESTRICTIONS /\ Len(revision.kids) = 0
             THEN Return(Empty, Empty)
             ELSE ScanRevision(elem, revision)

\* An index past the last child raises IndexError; `not revision` is
\* len(revision) == 0.
xml_parse_element(elem) ==
    IF Len(elem.kids) <= RevisionIndex
    THEN IndexError
    ELSE LET revision == Child(elem, RevisionIndex)
         IN  IF revision.tag = RESTRICTIONS
             THEN IF Len(elem.kids) <= RevisionIndex + 1
                  THEN IndexError
                  ELSE ScanRevision(elem, Child(elem, RevisionIndex + 1))
             ELSE IF Len(revision.kids) = 0
                  THEN Return(Empty, Empty)
                  ELSE ScanRevision(elem, revision)

\* ------------------------------------------------------------------ process
NoWords == [k \in {} |-> Empty]

\* A plausible slip: the namespace test is left out.
FilteredNoNamespace(word, code) == word = Empty \/ code = Empty

\* `not word or not code or ":" in word`
Filtered(word, code) == word = Empty \/ code = Empty \/ Contains(word, ":")

\* A plausible slip: `words[word] += code` on the defaultdict(str).
StoreAppend(ws, word, code) ==
    [k \in DOMAIN ws \cup {word} |->
        IF k = word THEN (IF word \in DOMAIN ws THEN ws[word] ELSE Empty) \o code
        ELSE ws[k]]

\* `words[word] = code`
Store(ws, word, code) ==
    [k \in DOMAIN ws \cup {word} |-> IF k = word THEN code ELSE ws[k]]

\* One iteration of the loop, for an element that parsed.
LoopBody(ws, r) == IF Filtered(r.word, r.code) THEN ws ELSE Store(ws, r.word, r.code)

\* process() run to its end over the elements d, when none raises.
RECURSIVE ProcessFrom(_, _)
ProcessFrom(ws, d) ==
    IF d = << >> THEN ws
    ELSE ProcessFrom(LoopBody(ws, xml_parse_element(Head(d))), Tail(d))

\* ------------------------------------------------------------- the inputs
Titles == {None, Some(<<"a">>), Some(<<"b">>), Some(<<"H", ":", "C">>)}
Texts  == {None, Some(<<"x">>), Some(<<"y">>)}

Filler(n) == [i \in 1..n |-> Leaf(OTHER_TAG, None)]

\* a revision of n children whose child k (0-based) is a text element
RevisionWith(n, k, t) ==
    Elem(REVISION, None,
         [i \in 1..n |-> IF i = k + 1 THEN Leaf(TEXT, t) ELSE Leaf(OTHER_TAG, None)])

\* a revision with two text children, at 5 and 6
RevisionTwoTexts ==
    Elem(REVISION, None, Filler(TextOffset) \o <<Leaf(TEXT, Some(<<"x">>)), Leaf(TEXT, Some(<<"y">>))>>)

Revisions ==
    {Elem(REVISION, None, Filler(n)) : n \in 0..MaxRevKids}
    \cup UNION {{RevisionWith(n, k, t) : k \in 0..(n - 1), t \in Texts} : n \in 1..MaxRevKids}
    \cup {RevisionTwoTexts}

Marker   == Leaf(RESTRICTIONS, Some(<<"x">>))
Redirect == Leaf(REDIRECT, None)
Mids     == {<< >>, <<Marker>>, <<Redirect>>}

PageHead(title) == <<Leaf(TITLE, title), Leaf(OTHER_TAG, None), Leaf(OTHER_TAG, None)>>
Page(title, mid, tail) == Elem(PAGE, None, PageHead(title) \o mid \o tail)

\* pages with fewer children than a title, a namespace and an id
ShortPages == {Elem(PAGE, None, SubSeq(PageHead(Some(<<"a">>)), 1, n)) : n \in 0..3}

AllPages ==
    {Page(t, m, <<r>>) : t \in Titles, m \in Mids, r \in Revisions}
    \cup {Page(t, m, << >>) : t \in Titles, m \in Mids}
    \cup ShortPages

Article(t, x) == Page(Some(t), << >>, <<RevisionWith(TextOffset + 1, TextOffset, x)>>)

\* the pages the dumps of the model are made of
DumpPages ==
    { Article(<<"a">>, Some(<<"x">>)),
      Article(<<"a">>, Some(<<"y">>)),
      Article(<<"a">>, None),
      Article(<<"H", ":", "C">>, Some(<<"x">>)),
      Page(Some(<<"b">>), << >>, <<RevisionWith(TextOffset + 2, TextOffset + 1, Some(<<"x">>))>>),
      Page(None, << >>, <<RevisionWith(TextOffset + 1, TextOffset, Some(<<"x">>))>>),
      Page(Some(<<"a">>), << >>, <<Elem(REVISION, None, Filler(TextOffset))>>),
      Page(Some(<<"a">>), << >>, <<RevisionWith(TextOffset, TextOffset - 1, Some(<<"x">>))>>),
      Page(Some(<<"a">>), << >>, <<Elem(REVISION, None, << >>)>>),
      Page(Some(<<"a">>), <<Redirect>>, <<RevisionWith(TextOffset + 1, TextOffset, Some(<<"x">>))>>),
      Page(Some(<<"a">>), <<Redirect>>, << >>),
      Page(Some(<<"b">>), <<Marker>>, <<RevisionWith(TextOffset + 1, TextOffset, Some(<<"y">>))>>),
      Page(Some(<<"a">>), <<Marker>>, <<Elem(REVISION, None, << >>)>>),
      Page(Some(<<"a">>), <<Marker>>, << >>),
      Page(Some(<<"a">>), << >>, << >>) }

Dumps == UNION {[1..n -> DumpPages] : n \in 0..MaxPages}

\* --------------------------------------------------------- the output file
NoFile == [exists |-> FALSE, entries |-> << >>, terminated |-> FALSE]

Entry(ws, k) == [key |-> k, value |-> ws[k]]

\* what json.dump(words, fh, sort_keys=True) writes, key after key
SortedEntries(ws) ==
    LET keys == Sorted(DOMAIN ws) IN [i \in 1..Len(keys) |-> Entry(ws, keys[i])]

\* ------------------------------------------------------------------- idle
\* The parts a specification does not exercise stay as they are here.
MainIdle ==
    /\ dump = << >> /\ hasDump = FALSE /\ pc = "idle" /\ pos = 1
    /\ words = NoWords /\ error = "none" /\ rc = -1 /\ file = NoFile /\ runs = 0

ParseIdle == element = Elem(PAGE, None, << >>) /\ parsed = Pending

IterIdle ==
    /\ ipc = "idle" /\ stack = << >> /\ nElems = 0 /\ tagOf = << >>
    /\ start_tag = None /\ yielded = << >> /\ closedPages = << >> /\ flat = TRUE

RenderIdle ==
    /\ lang_adjs = NoWords /\ langs = NoWords /\ registry = {}
    /\ registry_out = Empty /\ template = <<Empty>> /\ rendered = NotRendered

\* --------------------------------------------------------------- main()
MainInit ==
    /\ hasDump \in BOOLEAN
    /\ dump \in Dumps
    /\ (~hasDump => dump = << >>)
    /\ pc = "main" /\ pos = 1 /\ words = NoWords /\ error = "none" /\ rc = -1
    /\ file = NoFile /\ runs = 1

\* get_latest_xml_file() returns "": main returns 1
MainNoDump ==
    /\ pc = "main" /\ ~hasDump
    /\ pc' = "done" /\ rc' = 1
    /\ UNCHANGED <<dump, hasDump, pos, words, error, file, runs, parseVars, iterVars, renderVars>>

\* the output file is there: process() and save() are not called
MainSkip ==
    /\ pc = "main" /\ hasDump /\ file.exists
    /\ pc' = "done" /\ rc' = 0
    /\ UNCHANGED <<dump, hasDump, pos, words, error, file, runs, parseVars, iterVars, renderVars>>

\* the output file is not there: process() starts with an empty dict
MainProcess ==
    /\ pc = "main" /\ hasDump /\ ~file.exists
    /\ pc' = "process" /\ pos' = 1 /\ words' = NoWords
    /\ UNCHANGED <<dump, hasDump, error, rc, file, runs, parseVars, iterVars, renderVars>>

\* one iteration of process()'s loop on the next element of xml_iter_parse;
\* an exception of xml_parse_element leaves process() and main()
ProcessElement ==
    /\ pc = "process" /\ pos <= Len(dump)
    /\ LET r == xml_parse_element(dump[pos])
       IN  IF r.raised
           THEN /\ pc' = "raised" /\ error' = "IndexError"
                /\ UNCHANGED <<pos, words>>
           ELSE /\ words' = LoopBody(words, r)
                /\ pos' = pos + 1
                /\ UNCHANGED <<pc, error>>
    /\ UNCHANGED <<dump, hasDump, rc, file, runs, parseVars, iterVars, renderVars>>

\* the generator is exhausted: process() returns words, main() calls save()
ProcessReturn ==
    /\ pc = "process" /\ pos > Len(dump)
    /\ pc' = "save"
    /\ UNCHANGED <<dump, hasDump, pos, words, error, rc, file, runs, parseVars, iterVars, renderVars>>

\* raw_data.open(mode="w") creates or truncates the file
SaveOpen ==
    /\ pc = "save"
    /\ file' = [exists |-> TRUE, entries |-> << >>, terminated |-> FALSE]
    /\ pc' = "dump"
    /\ UNCHANGED <<dump, hasDump, pos, words, error, rc, runs, parseVars, iterVars, renderVars>>

\* json.dump writes the next key and its value
SaveWrite ==
    /\ pc = "dump" /\ Len(file.entries) < Len(SortedEntries(words))
    /\ file' = [file EXCEPT !.entries = Append(@, SortedEntries(words)[Len(@) + 1])]
    /\ UNCHANGED <<dump, hasDump, pc, pos, words, error, rc, runs, parseVars, iterVars, renderVars>>

\* json.dump writes the closing brace, the with block closes the file, main returns 0
SaveClose ==
    /\ pc = "dump" /\ Len(file.entries) = Len(SortedEntries(words))
    /\ file' = [file EXCEPT !.terminated = TRUE]
    /\ pc' = "done" /\ rc' = 0
    /\ UNCHANGED <<dump, hasDump, pos, words, error, runs, parseVars, iterVars, renderVars>>

\* a write raises (the disk is full, the run is interrupted): the with block
\* closes the file as it is and the exception leaves save() and main()
SaveFail ==
    /\ pc = "dump"
    /\ pc' = "raised" /\ error' = "OSError"
    /\ UNCHANGED <<dump, hasDump, pos, words, rc, file, runs, parseVars, iterVars, renderVars>>

\* a later run of main() on the same data directory
MainAgain ==
    /\ pc \in {"done", "raised"} /\ runs < MaxRuns
    /\ pc' = "main" /\ runs' = runs + 1
    /\ pos' = 1 /\ words' = NoWords /\ error' = "none" /\ rc' = -1
    /\ UNCHANGED <<dump, hasDump, file, parseVars, iterVars, renderVars>>

Init == MainInit /\ ParseIdle /\ IterIdle /\ RenderIdle

Next ==
    \/ MainNoDump \/ MainSkip \/ MainProcess
    \/ ProcessElement \/ ProcessReturn
    \/ SaveOpen \/ SaveWrite \/ SaveClose \/ SaveFail
    \/ MainAgain

Spec == Init /\ [][Next]_vars

\* ------------------------------------------- xml_parse_element on one element
ParseInit == element \in AllPages /\ parsed = Pending

ParseElement ==
    /\ ~parsed.done
    /\ parsed' = xml_parse_element(element)
    /\ UNCHANGED <<element, mainVars, iterVars, renderVars>>

InitParse == ParseInit /\ MainIdle /\ IterIdle /\ RenderIdle

NextParse == ParseElement

SpecParse == InitParse /\ [][NextParse]_vars

\* ---------------------------------------------------------- xml_iter_parse
\* ElementTree.iterparse reads the file as it goes: the model draws the next
\* event of a well-formed document when the generator asks for it.  An element
\* is named by its rank among the start events.
IterTags == {MEDIAWIKI, PAGE, TITLE}

IterInit ==
    /\ ipc = "first" /\ stack = << >> /\ nElems = 0 /\ tagOf = << >>
    /\ start_tag = None /\ yielded = << >> /\ closedPages = << >> /\ flat = TRUE

\* the `if` of the loop: a page starts while none is tracked
Opens(event, tag, st) == st = None /\ event = "start" /\ tag = PAGE

\* A plausible slip: the tag of the closing element is not compared.
YieldsAnyEnd(event, tag, st) == st # None /\ event = "end"

\* the `elif` of the loop: the tracked tag closes
Yields(event, tag, st) == st # None /\ event = "end" /\ Some(tag) = st

OpenPages == {i \in 1..Len(stack) : tagOf[stack[i]] = PAGE}

\* `_, root = next(doc)`: the first event, the start of the root element, is
\* taken before the loop and never reaches its tests
IterFirst ==
    /\ ipc = "first"
    /\ \E t \in IterTags :
        /\ tagOf' = <<t>>
        /\ flat' = (t # PAGE)
    /\ nElems' = 1 /\ stack' = <<1>> /\ start_tag' = None /\ ipc' = "loop"
    /\ UNCHANGED <<yielded, closedPages, mainVars, parseVars, renderVars>>

\* the loop body on a start event
IterStart ==
    /\ ipc = "loop" /\ stack # << >> /\ nElems < MaxElems
    /\ \E t \in IterTags :
        /\ tagOf' = Append(tagOf, t)
        /\ flat' = (flat /\ (t = PAGE => OpenPages = {}))
        /\ start_tag' = IF Opens("start", t, start_tag) THEN Some(t) ELSE start_tag
        /\ yielded' = IF ~Opens("start", t, start_tag) /\ Yields("start", t, start_tag)
                      THEN Append(yielded, nElems + 1) ELSE yielded
    /\ nElems' = nElems + 1
    /\ stack' = Append(stack, nElems + 1)
    /\ UNCHANGED <<ipc, closedPages, mainVars, parseVars, renderVars>>

\* the loop body on an end event: the element is yielded, then start_tag is reset
\* (root.clear() frees memory and changes nothing the model holds)
IterEnd ==
    /\ ipc = "loop" /\ stack # << >>
    /\ LET e == stack[Len(stack)]
           t == tagOf[e]
           y == ~Opens("end", t, start_tag) /\ Yields("end", t, start_tag)
       IN  /\ yielded' = IF y THEN Append(yielded, e) ELSE yielded
           /\ start_tag' = IF y THEN None ELSE start_tag
           /\ closedPages' = IF t = PAGE THEN Append(closedPages, e) ELSE closedPages
    /\ stack' = SubSeq(stack, 1, Len(stack) - 1)
    /\ UNCHANGED <<ipc, nElems, tagOf, flat, mainVars, parseVars, renderVars>>

\* the root has ended: doc is exhausted and the generator returns
IterExhausted ==
    /\ ipc = "loop" /\ stack = << >>
    /\ ipc' = "done"
    /\ UNCHANGED <<stack, nElems, tagOf, start_tag, yielded, closedPages, flat,
                   mainVars, parseVars, renderVars>>

InitIter == IterInit /\ MainIdle /\ ParseIdle /\ RenderIdle

NextIter == IterFirst \/ IterStart \/ IterEnd \/ IterExhausted

SpecIter == InitIter /\ [][NextIter]_vars

\* --------------------------------------------------- last_template_handler
\* templates_markierung.get(name, "")
templates_markierung(name) ==
    IF name = <<"a", "b", "w", ".">> THEN <<"a", "b", "w", "e", "r", "t", "e", "n", "d">> ELSE
    IF name = <<"a", "d", "v", ".">> THEN <<"a", "d", "v", "e", "r", "b", "i", "a", "l">> ELSE
    IF name = <<"D", "a", "t", "i", "v">> THEN <<"m", "i", "t", " ", "D", "a", "t", "i", "v">> ELSE
    IF name = <<"f", "a", "c", "h", "s", "p", "r", ".">> THEN <<"f", "a", "c", "h", "s", "p", "r", "a", "c", "h", "l", "i", "c", "h">> ELSE
    IF name = <<"f", "a", "m", ".">> THEN <<"f", "a", "m", "i", "l", "i", "ä", "r">> ELSE
    IF name = <<"f", "D", "u", ".">> THEN <<"f", " ", "D", "u", ".">> ELSE
    IF name = <<"f", "i", "g", ".">> THEN <<"f", "i", "g", "u", "r", "a", "t", "i", "v">> ELSE
    IF name = <<"f", "P", "l", ".">> THEN <<"f", " ", "P", "l", ".">> ELSE
    IF name = <<"g", "e", "h", ".">> THEN <<"g", "e", "h", "o", "b", "e", "n">> ELSE
    IF name = <<"G", "e", "n", "i", "t", "i", "v">> THEN <<"m", "i", "t", " ", "G", "e", "n", "i", "t", "i", "v">> ELSE
    IF name = <<"h", "i", "s", "t", ".">> THEN <<"h", "i", "s", "t", "o", "r", "i", "s", "c", "h">> ELSE
    IF name = <<"i", "n", "d", "e", "k", "l", ".">> THEN <<"i", "n", "d", "e", "k", "l", "i", "n", "a", "b", "e", "l">> ELSE
    IF name = <<"i", "n", "t", "r", "a", "n", "s", ".">> THEN <<"i", "n", "t", "r", "a", "n", "s", "i", "t", "i", "v">> ELSE
    IF name = <<"k", "P", "l", ".">> THEN <<"k", "e", "i", "n", " ", "P", "l", "u", "r", "a", "l">> ELSE
    IF name = <<"k", "S", "g", ".">> THEN <<"k", "e", "i", "n", " ", "S", "i", "n", "g", "u", "l", "a", "r">> ELSE
    IF name = <<"k", "S", "t", ".">> THEN <<"k", "e", "i", "n", "e", " ", "S", "t", "e", "i", "g", "e", "r", "u", "n", "g">> ELSE
    IF name = <<"l", "a", "n", "d", "s", "c", "h", ".">> THEN <<"l", "a", "n", "d", "s", "c", "h", "a", "f", "t", "l", "i", "c", "h">> ELSE
    IF name = <<"m", "P", "l", ".">> THEN <<"m", " ", "P", "l", ".">> ELSE
    IF name = <<"m", "D", "u", ".">> THEN <<"m", " ", "D", "u", ".">> ELSE
    IF name = <<"m", "e", "t", "o", "n", ".">> THEN <<"m", "e", "t", "o", "n", "y", "m", "i", "s", "c", "h">> ELSE
    IF name = <<"n", "P", "l", ".">> THEN <<"n", " ", "P", "l", ".">> ELSE
    IF name = <<"r", "e", "f", "l", ".">> THEN <<"r", "e", "f", "l", "e", "x", "i", "v">> ELSE
    IF name = <<"r", "e", "g", ".">> THEN <<"r", "e", "g", "i", "o", "n", "a", "l">> ELSE
    IF name = <<"s", "c", "h", "e", "r", "z", "h", ".">> THEN <<"s", "c", "h", "e", "r", "z", "h", "a", "f", "t">> ELSE
    IF name = <<"t", "r", "a", "n", "s", ".">> THEN <<"t", "r", "a", "n", "s", "i", "t", "i", "v">> ELSE
    IF name = <<"u", "P", "l", ".">> THEN <<"u", " ", "P", "l", ".">> ELSE
    IF name = <<"u", "g", "s", ".">> THEN <<"u", "m", "g", "a", "n", "g", "s", "s", "p", "r", "a", "c", "h", "l", "i", "c", "h">> ELSE
    IF name = <<"u", "n", "r", "e", "g", ".">> THEN <<"u", "n", "r", "e", "g", "e", "l", "m", "ä", "ß", "i", "g">> ELSE
    IF name = <<"ü", "b", "e", "r", "t", "r", ".">> THEN <<"ü", "b", "e", "r", "t", "r", "a", "g", "e", "n">> ELSE
    IF name = <<"v", "a", "t", "d", ".">> THEN <<"v", "e", "r", "a", "l", "t", "e", "n", "d">> ELSE
    IF name = <<"v", "e", "r", "a", "l", "t", "e", "n", "d">> THEN <<"v", "e", "r", "a", "l", "t", "e", "n", "d">> ELSE
    IF name = <<"v", "a", ".">> THEN <<"v", "e", "r", "a", "l", "t", "e", "t">> ELSE
    IF name = <<"v", "e", "r", "a", "l", "t", "e", "t">> THEN <<"v", "e", "r", "a", "l", "t", "e", "t">> ELSE
    IF name = <<"v", "u", "l", ".">> THEN <<"v", "u", "l", "g", "ä", "r">> ELSE
    IF name = <<"v", "u", "l", "g", ".">> THEN <<"v", "u", "l", "g", "ä", "r">> ELSE
    Empty

MarkierungKeys ==
    { <<"a", "b", "w", ".">>,
      <<"a", "d", "v", ".">>,
      <<"D", "a", "t", "i", "v">>,
      <<"f", "a", "c", "h", "s", "p", "r", ".">>,
      <<"f", "a", "m", ".">>,
      <<"f", "D", "u", ".">>,
      <<"f", "i", "g", ".">>,
      <<"f", "P", "l", ".">>,
      <<"g", "e", "h", ".">>,
      <<"G", "e", "n", "i", "t", "i", "v">>,
      <<"h", "i", "s", "t", ".">>,
      <<"i", "n", "d", "e", "k", "l", ".">>,
      <<"i", "n", "t", "r", "a", "n", "s", ".">>,
      <<"k", "P", "l", ".">>,
      <<"k", "S", "g", ".">>,
      <<"k", "S", "t", ".">>,
      <<"l", "a", "n", "d", "s", "c", "h", ".">>,
      <<"m", "P", "l", ".">>,
      <<"m", "D", "u", ".">>,
      <<"m", "e", "t", "o", "n", ".">>,
      <<"n", "P", "l", ".">>,
      <<"r", "e", "f", "l", ".">>,
      <<"r", "e", "g", ".">>,
      <<"s", "c", "h", "e", "r", "z", "h", ".">>,
      <<"t", "r", "a", "n", "s", ".">>,
      <<"u", "P", "l", ".">>,
      <<"u", "g", "s", ".">>,
      <<"u", "n", "r", "e", "g", ".">>,
      <<"ü", "b", "e", "r", "t", "r", ".">>,
      <<"v", "a", "t", "d", ".">>,
      <<"v", "e", "r", "a", "l", "t", "e", "n", "d">>,
      <<"v", "a", ".">>,
      <<"v", "e", "r", "a", "l", "t", "e", "t">>,
      <<"v", "u", "l", ".">>,
      <<"v", "u", "l", "g", ".">> }

\* table.get(name, "")
Lookup(table, name) == IF name \in DOMAIN table THEN table[name] ELSE Empty

\* `template[1] if len(template) > 1 else ''`
Suffix(tpl) == IF Len(tpl) > 1 THEN tpl[2] ELSE Empty

\* user_functions.italic
italic(s) == <<"<", "i", ">">> \o s \o <<"<", "/", "i", ">">>

\* str.capitalize() on the letters the model's names start with
Upper(c) == CASE c = "a" -> "A" [] c = "d" -> "D" [] c = "f" -> "F" [] OTHER -> c
capitalize(s) == IF s = Empty THEN s ELSE <<Upper(Head(s))>> \o Tail(s)

\* template_handlers.lookup_template and render_template
lookup_template(name) == name \in registry
render_template(tpl) == registry_out

\* defaults.last_template_handler: the placeholder
default(tpl) == italic(<<"(">> \o capitalize(tpl[1]) \o <<")">>)

\* the return statement that produced a result (1..5, in source order) and the result
Result(step, value) == [raised |-> FALSE, done |-> TRUE, step |-> step, value |-> value]
Raised == [raised |-> TRUE, done |-> TRUE, step |-> 0, value |-> Empty]

\* what step k returns when it is the one that returns
StepValue(k, tpl) ==
    CASE k = 1 -> Lookup(lang_adjs, tpl[1]) \o Suffix(tpl)
      [] k = 2 -> Lookup(langs, tpl[1])
      [] k = 3 -> italic(templates_markierung(tpl[1]) \o Suffix(tpl))
      [] k = 4 -> render_template(tpl)
      [] OTHER -> default(tpl)

\* A plausible slip: the language-name table is consulted before the adjectives.
last_template_handler_langs_first(tpl) ==
    IF Lookup(langs, tpl[1]) # Empty THEN Result(2, StepValue(2, tpl))
    ELSE IF Lookup(lang_adjs, tpl[1]) # Empty THEN Result(1, StepValue(1, tpl))
    ELSE IF templates_markierung(tpl[1]) # Empty THEN Result(3, StepValue(3, tpl))
    ELSE IF lookup_template(tpl[1]) THEN Result(4, StepValue(4, tpl))
    ELSE Result(5, StepValue(5, tpl))

\* A plausible slip: template[1] is read without the length test.
last_template_handler_unguarded(tpl) ==
    IF Lookup(lang_adjs, tpl[1]) # Empty
    THEN IF Len(tpl) > 1 THEN Result(1, StepValue(1, tpl)) ELSE Raised
    ELSE IF Lookup(langs, tpl[1]) # Empty THEN Result(2, StepValue(2, tpl))
    ELSE IF templates_markierung(tpl[1]) # Empty
    THEN IF Len(tpl) > 1 THEN Result(3, StepValue(3, tpl)) ELSE Raised
    ELSE IF lookup_template(tpl[1]) THEN Result(4, StepValue(4, tpl))
    ELSE Result(5, StepValue(5, tpl))

\* A plausible slip: a step tests that the key is there (`is not None`), not
\* that its value is truthy.
last_template_handler_present(tpl) ==
    IF tpl[1] \in DOMAIN lang_adjs THEN Result(1, StepValue(1, tpl))
    ELSE IF tpl[1] \in DOMAIN langs THEN Result(2, StepValue(2, tpl))
    ELSE IF tpl[1] \in MarkierungKeys THEN Result(3, StepValue(3, tpl))
    ELSE IF lookup_template(tpl[1]) THEN Result(4, StepValue(4, tpl))
    ELSE Result(5, StepValue(5, tpl))

\* The walrus tests are truthiness tests: a step returns when its lookup is a
\* non-empty str.
last_template_handler(tpl) ==
    IF Lookup(lang_adjs, tpl[1]) # Empty THEN Result(1, StepValue(1, tpl))
    ELSE IF Lookup(langs, tpl[1]) # Empty THEN Result(2, StepValue(2, tpl))
    ELSE IF templates_markierung(tpl[1]) # Empty THEN Result(3, StepValue(3, tpl))
    ELSE IF lookup_template(tpl[1]) THEN Result(4, StepValue(4, tpl))
    ELSE Result(5, StepValue(5, tpl))

\* ---- the inputs
N_fr_dot  == <<"f", "r", ".">>
N_fr      == <<"f", "r">>
N_abw     == <<"a", "b", "w", ".">>
N_f       == <<"f">>
N_default == <<"d", "e", "f", "a", "u", "l", "t">>
Names     == {N_fr_dot, N_fr, N_abw, N_f, N_default}

V_adj  == <<"f", "r", "a", "n", "z", "ö", "s", "i", "s", "c", "h">>
V_lang == <<"F", "r", "a", "n", "z", "ö", "s", "i", "s", "c", "h">>

\* the dicts with keys among `keys` and values among `vals`
Tables(keys, vals) == UNION {[d -> vals] : d \in SUBSET keys}

ParamValues == {<<":">>}
Params == UNION {[1..n -> ParamValues] : n \in 0..MaxParams}

RenderInit ==
    /\ lang_adjs \in Tables({N_fr_dot, N_abw}, {Empty, V_adj})
    /\ langs \in Tables({N_fr, N_fr_dot, N_abw}, {Empty, V_lang})
    /\ registry \in SUBSET {N_f, N_abw}
    /\ registry_out \in {Empty, italic(<<"f">>)}
    /\ template \in {<<n>> \o ps : n \in Names, ps \in Params}
    /\ rendered = NotRendered

Render ==
    /\ ~rendered.done
    /\ rendered' = last_template_handler(template)
    /\ UNCHANGED <<lang_adjs, langs, registry, registry_out, template,
                   mainVars, parseVars, iterVars>>

InitRender == RenderInit /\ MainIdle /\ ParseIdle /\ IterIdle

NextRender == Render

SpecRender == InitRender /\ [][NextRender]_vars

\* ---------------------------------------------- properties of the dump parser
Max(S) == CHOOSE m \in S : \A o \in S : o <= m

\* what a page says of itself, read by tag and not by position
TitleOf(p) ==
    LET at == {i \in 1..Len(p.kids) : p.kids[i].tag = TITLE}
    IN  IF at = {} THEN Empty ELSE OrEmpty(p.kids[CHOOSE i \in at : \A j \in at : i <= j].text)

RevisionsOf(p) == {i \in 1..Len(p.kids) : p.kids[i].tag = REVISION}

TextOf(p) ==
    LET revs == RevisionsOf(p)
    IN  IF revs = {} THEN Empty
        ELSE LET rev == p.kids[Max(revs)]
                 at  == {i \in 1..Len(rev.kids) : rev.kids[i].tag = TEXT}
             IN  IF at = {} THEN Empty
                 ELSE OrEmpty(rev.kids[CHOOSE i \in at : \A j \in at : i <= j].text)

\* the pages process() has consumed so far
Consumed == 1..(pos - 1)

\* the consumed pages that put an entry for title t in the table
Emitted(t) ==
    {i \in Consumed :
        LET r == xml_parse_element(dump[i])
        IN  ~r.raised /\ r.word = t /\ ~Filtered(r.word, r.code)}

\* C1: at every point of process(), every entry of the word table has a
\* non-empty word without ':' and a non-empty markup.
C1_WordEntryInvariant ==
    \A w \in DOMAIN words : w # Empty /\ ~Contains(w, ":") /\ words[w] # Empty

\* C1's case: process() has returned a non-empty table for a dump that holds a
\* page of another namespace with a revision and a text.
C1_Witness ==
    /\ pc = "save" /\ DOMAIN words # {}
    /\ \E i \in 1..Len(dump) : dump[i] = Article(<<"H", ":", "C">>, Some(<<"x">>))

\* a page xml_parse_element cannot index: fewer than four children, or a
\* restriction marker with nothing after it
Malformed(p) ==
    \/ Len(p.kids) <= RevisionIndex
    \/ Child(p, RevisionIndex).tag = RESTRICTIONS /\ Len(p.kids) <= RevisionIndex + 1

\* C3 (as claimed): a malformed page is skipped; it never makes process() raise.
C3_MalformedPagesSkipped ==
    \A i \in 1..Len(dump) :
        Malformed(dump[i]) => ~(pc = "raised" /\ error = "IndexError" /\ pos = i)

\* C4 (as claimed): the markup stored for a title is the text of the most
\* recently seen page with that title.
C4_LastSeenPageWins ==
    \A t \in DOMAIN words :
        LET seen == {i \in Consumed : TitleOf(dump[i]) = t}
        IN  seen # {} /\ words[t] = TextOf(dump[Max(seen)])

\* C4 (amended): the table holds exactly the titles of the pages that were not
\* skipped, and the markup stored for a title is the text of the most recently
\* seen page with that title that was not skipped; texts are never merged.
C4_LastEmittedPageWins ==
    /\ DOMAIN words = {t \in {TitleOf(dump[i]) : i \in Consumed} : Emitted(t) # {}}
    /\ \A t \in DOMAIN words :
           /\ Emitted(t) # {}
           /\ words[t] = xml_parse_element(dump[Max(Emitted(t))]).code
           /\ words[t] = TextOf(dump[Max(Emitted(t))])

\* C4's case: two pages of the same title and different texts were consumed.
C4_Witness ==
    /\ pc = "save"
    /\ dump = <<Article(<<"a">>, Some(<<"x">>)), Article(<<"a">>, Some(<<"y">>))>>
    /\ words[<<"a">>] = <<"y">>

\* C5 (as claimed): the output file does not exist or holds the complete table.
C5_OutputAbsentOrComplete ==
    file.exists =>
        /\ file.terminated
        /\ file.entries = SortedEntries(ProcessFrom(NoWords, dump))

\* ------------------------------------ properties of xml_parse_element alone
\* C7 (as claimed): a page without a revision child parses to the empty pair
\* (which process() filters out), whatever its other children.
C7_NoRevisionEmptyPair ==
    (parsed.done /\ RevisionsOf(element) = {}) =>
        (parsed = Return(Empty, Empty) /\ Filtered(parsed.word, parsed.code))

\* a page whose child 3 is the restriction marker and whose child 4 is a revision
Restricted(p) ==
    /\ Len(p.kids) > RevisionIndex + 1
    /\ Child(p, RevisionIndex).tag = RESTRICTIONS
    /\ Child(p, RevisionIndex + 1).tag = REVISION

\* the same page without the marker
Unmarked(p) ==
    Elem(p.tag, p.text,
         SubSeq(p.kids, 1, RevisionIndex) \o SubSeq(p.kids, RevisionIndex + 2, Len(p.kids)))

\* C9: with a restriction marker at index 3 the revision is read at index 4, and
\* the result is the one for the same page without the marker, whatever the
\* revision holds.
C9_RestrictionShift ==
    (parsed.done /\ Restricted(element)) =>
        /\ ~parsed.raised
        /\ parsed = ScanRevision(element, Child(element, RevisionIndex + 1))
        /\ parsed = xml_parse_element(Unmarked(element))

\* C9's case: a restricted page that yields an entry has been parsed.
C9_Witness ==
    /\ parsed.done /\ Restricted(element)
    /\ parsed.word # Empty /\ parsed.code # Empty

\* ------------------------------------------------ properties of xml_iter_parse
Increasing(q) == \A i, j \in 1..Len(q) : i < j => q[i] < q[j]

OnlyPages(q) == \A i \in 1..Len(q) : tagOf[q[i]] = PAGE

\* C8 (as claimed): over any sequence of events, the elements yielded are
\* exactly the pages closed so far, each yielded at its closing event, in
\* document order; nothing else is yielded; the generator ends with the input.
C8_OnePerPage ==
    /\ yielded = closedPages
    /\ Increasing(yielded)
    /\ OnlyPages(yielded)
    /\ (ipc = "done" => stack = << >>)

\* C8 (amended): the same, for the documents whose pages are neither the root
\* nor inside another page; for every document only pages are yielded and the
\* generator runs until the input ends and then returns.
C8_OnePerFlatPage ==
    /\ flat => (yielded = closedPages /\ Increasing(yielded))
    /\ OnlyPages(yielded)
    /\ (ipc = "done" => stack = << >>)
    /\ (ipc # "done" => ENABLED NextIter)

\* C8's case: a document of two pages below the root, one with a child, was
\* read to its end.
C8_Witness ==
    /\ flat /\ ipc = "done" /\ Len(yielded) >= 2
    /\ \E i \in 1..Len(tagOf) : tagOf[i] = TITLE

\* --------------------------------------- properties of last_template_handler
Name == template[1]

\* step k's table holds the name (the registry recognises it; the default takes all)
Holds(k) ==
    CASE k = 1 -> Name \in DOMAIN lang_adjs
      [] k = 2 -> Name \in DOMAIN langs
      [] k = 3 -> Name \in MarkierungKeys
      [] k = 4 -> Name \in registry
      [] OTHER -> TRUE

\* what step k's table lookup yields, for the three locale tables
LookupAt(k) ==
    CASE k = 1 -> Lookup(lang_adjs, Name)
      [] k = 2 -> Lookup(langs, Name)
      [] OTHER -> templates_markierung(Name)

\* step k's lookup yields a non-empty value
Matches(k) == IF k <= 3 THEN LookupAt(k) # Empty ELSE Holds(k)

FirstHolding  == CHOOSE k \in 1..5 : Holds(k) /\ \A j \in 1..(k - 1) : ~Holds(j)
FirstMatching == CHOOSE k \in 1..5 : Matches(k) /\ \A j \in 1..(k - 1) : ~Matches(j)

\* C2 (as claimed): the result is the one of the earliest step whose table
\* contains the name.
C2_FirstHoldingStepWins ==
    rendered.done => rendered = Result(FirstHolding, StepValue(FirstHolding, template))

\* C2 (amended): the result is the one of the earliest step whose table holds a
\* non-empty value for the name (for the registry: that recognises the name);
\* a name with a non-empty adjective that the registry also recognises
\* resolves via the adjective table.
C2_FirstMatchingStepWins ==
    rendered.done =>
        /\ rendered = Result(FirstMatching, StepValue(FirstMatching, template))
        /\ (Lookup(lang_adjs, Name) # Empty /\ Name \in registry) =>
               rendered.value = Lookup(lang_adjs, Name) \o Suffix(template)

\* C2's case: a name every table and the registry hold was resolved.
C2_Witness ==
    /\ rendered.done /\ rendered.step = 1
    /\ \A k \in 1..4 : Matches(k)

\* C6: every invocation returns a string and raises nothing; a name that is in
\* no locale table and that the registry does not recognise gets the default
\* handler's placeholder.
C6_RenderNeverFails ==
    rendered.done =>
        /\ ~rendered.raised
        /\ rendered.step \in 1..5
        /\ (\A k \in 1..4 : ~Holds(k)) => rendered.value = default(template)

\* C6's case: the invocation of the doctest, ["default"], got '<i>(Default)</i>'.
C6_Witness ==
    /\ rendered.done /\ template = <<N_default>>
    /\ rendered.value = <<"<", "i", ">", "(", "D", "e", "f", "a", "u", "l", "t", ")", "<", "/", "i", ">">>

\* C10: a locale step whose lookup yields "" (the name is absent, or its value
\* is "") does not return; when the three of them yield "" the result is the
\* registry's or the default handler's; no result is built from an empty value.
C10_FallThroughOnEmpty ==
    rendered.done =>
        /\ \A k \in 1..3 : LookupAt(k) = Empty => rendered.step # k
        /\ (\A k \in 1..3 : LookupAt(k) = Empty) =>
               /\ rendered.step = (IF lookup_template(Name) THEN 4 ELSE 5)
               /\ rendered.value = StepValue(rendered.step, template)
        /\ rendered.step \in 1..3 => rendered.value # Empty

\* C10's case: the name is a key of both language tables with the value "" and
\* the invocation was resolved by the registry or the default handler.
C10_Witness ==
    /\ rendered.done
    /\ Name \in DOMAIN lang_adjs /\ lang_adjs[Name] = Empty
    /\ Name \in DOMAIN langs /\ langs[Name] = Empty
    /\ rendered.step \in {4, 5}

====
